---- MODULE Spec2Model ----
(***************************************************************************)
(* A model of the slotted-page storage layer of mokdb:                     *)
(*   src/src/storage/page.rs        (Page, Slot, TupleHeader)              *)
(*   src/src/storage/io_manager.rs  (IOManager)                            *)
(* and of the SELECT parser of src/src/parser_v2/parser.rs.                *)
(*                                                                         *)
(* Arrays, Vec<u8> and &[u8] are sequences: element i of the code (from 0) *)
(* is element i + 1 of the sequence, and buf[a..b] is Slice(buf, a, b).    *)
(* The build profile decides what an integer overflow does (panic with     *)
(* debug assertions, wrap-around without) and whether debug_assert! runs;  *)
(* it is chosen once, in Init, and never changes.                          *)
(***************************************************************************)
EXTENDS Integers, Sequences, FiniteSets, TLC

VARIABLES build, page, result, hist, files, parser, calls

vars == <<build, page, result, hist, files, parser, calls>>

(* ------------------------------------------------------------------ *)
(* Program constants (page.rs:3-8).                                    *)
PAGE_SIZE == 8192
MAX_SLOTS == 256
HEADER_SIZE == 4
SLOT_SIZE == 6
DATA_SIZE == PAGE_SIZE - HEADER_SIZE - (SLOT_SIZE * MAX_SLOTS)
TUPLE_HEADER_SIZE == 32
U16 == 65536

(* ------------------------------------------------------------------ *)
(* Bounds of the model.                                                *)
MaxInserts == 4
MaxTxid == 2

Builds == {"debug", "release"}

(* ------------------------------------------------------------------ *)
(* let x = v in F(x), with v evaluated once.                           *)
Let(v, F(_)) == CHOOSE r \in {F(x) : x \in {v}} : TRUE

(* ------------------------------------------------------------------ *)
(* Byte helpers.                                                       *)

(* x.to_le_bytes() of an n-byte unsigned integer. *)
RECURSIVE to_le_bytes(_, _)
to_le_bytes(x, n) ==
  IF n = 0 THEN <<>> ELSE <<x % 256>> \o to_le_bytes(x \div 256, n - 1)

(* uN::from_le_bytes(bytes). *)
RECURSIVE from_le_bytes(_)
from_le_bytes(bytes) ==
  IF Len(bytes) = 0 THEN 0
  ELSE LET hi == from_le_bytes(Tail(bytes))
       IN IF hi = 0 THEN Head(bytes) ELSE Head(bytes) + 256 * hi

(* buf[a..b], in range: a <= b <= len. *)
Slice(buf, a, b) == SubSeq(buf, a + 1, b)

(* [0; n] *)
Zeros(n) == SubSeq([i \in 1..n |-> 0], 1, n)

(* arr[a..a+len(src)].copy_from_slice(src), in range: a + len(src) <= len(arr). *)
CopyInto(arr, a, src) ==
  SubSeq(arr, 1, a) \o src \o SubSeq(arr, a + Len(src) + 1, Len(arr))

(* A payload of len bytes whose content depends on its position and a seed. *)
Payload(len, seed) == SubSeq([i \in 1..len |-> (seed + 7 * i) % 256], 1, len)

(* ------------------------------------------------------------------ *)
(* Outcomes of a call.                                                 *)
None == [tag |-> "None"]
Some(v) == [tag |-> "Some", val |-> v]
Panic == [tag |-> "Panic"]

ErrNotEnoughFreeSpace == "Not enough free space"
ErrNoFreeSlots == "No free slots available"
ErrNoFreeDataSpace == "No free data space available"
ErrNotEnoughContiguousSpace == "Not enough contiguous space"
ErrInvalidPageSize == "Invalid page size"

(* ------------------------------------------------------------------ *)
(* PageHeader, Slot, TupleHeader, Page.                                *)

PageHeader_new ==
  [free_space |-> DATA_SIZE % U16, total_free_slots |-> MAX_SLOTS % U16]

Slot_new == [offset |-> 0, length |-> 0, is_used |-> 0, _pad |-> 0]

TupleHeader_new(xmin, xmax, page_no, slot_no) ==
  [xmin |-> xmin, xmax |-> xmax, page_no |-> page_no, slot_no |-> slot_no,
   _pad |-> <<0, 0, 0, 0, 0, 0>>]

is_visible_wrong(h, txid) == h.xmin <= txid /\ (h.xmax = 0 \/ txid <= h.xmax)

is_visible(h, txid) == h.xmin <= txid /\ (h.xmax = 0 \/ txid < h.xmax)

TupleHeader_to_bytes(h) ==
  to_le_bytes(h.xmin, 8) \o to_le_bytes(h.xmax, 8) \o
  to_le_bytes(h.page_no, 8) \o to_le_bytes(h.slot_no, 2) \o h._pad

TupleHeader_from_bytes(bytes) ==
  IF Len(bytes) < 32 THEN None
  ELSE Some([xmin |-> from_le_bytes(Slice(bytes, 0, 8)),
             xmax |-> from_le_bytes(Slice(bytes, 8, 16)),
             page_no |-> from_le_bytes(Slice(bytes, 16, 24)),
             slot_no |-> from_le_bytes(Slice(bytes, 24, 26)),
             _pad |-> Slice(bytes, 26, 32)])

Page_new(id) ==
  [id |-> id,
   header |-> PageHeader_new,
   slots |-> SubSeq([i \in 1..MAX_SLOTS |-> Slot_new], 1, MAX_SLOTS),
   data |-> Zeros(DATA_SIZE)]

(* self.slots[i] *)
SlotAt(p, i) == p.slots[i + 1]

SlotIdx == 0..(MAX_SLOTS - 1)

(* ------------------------------------------------------------------ *)
(* Page::find_free_slot: the first index whose slot is unused.         *)

find_free_slot_wrong(p) ==
  LET free == {i \in SlotIdx : SlotAt(p, i).is_used = 0}
  IN IF free = {} THEN Some(MAX_SLOTS - 1)
     ELSE Some(CHOOSE i \in free : \A j \in free : i <= j)

find_free_slot(p) ==
  LET free == {i \in SlotIdx : SlotAt(p, i).is_used = 0}
  IN IF free = {} THEN None
     ELSE Some(CHOOSE i \in free : \A j \in free : i <= j)

(* ------------------------------------------------------------------ *)
(* Page::find_free_space_offset.                                       *)

UsedIdx(p) == {i \in SlotIdx : SlotAt(p, i).is_used # 0}

(* x.offset + x.length is a u16 addition: it panics on overflow in a debug
   build and wraps in a release build. *)
UsedOverflows(p) ==
  \E i \in UsedIdx(p) : SlotAt(p, i).offset + SlotAt(p, i).length >= U16

(* used_slots after sort_by_key(|u| u.0): a stable sort, so slots with the
   same offset stay in slot-index order. Each element is <<start, end>>.
   rank[i] is the position of slot i in the sorted vector. *)
SortRank(p, U) ==
  [i \in U |->
     Cardinality({j \in U :
                    \/ SlotAt(p, j).offset < SlotAt(p, i).offset
                    \/ SlotAt(p, j).offset = SlotAt(p, i).offset /\ j < i}) + 1]

UsedSorted(p) ==
  Let(UsedIdx(p), LAMBDA U :
    Let(SortRank(p, U), LAMBDA rank :
      [r \in 1..Cardinality(U) |->
         LET i == CHOOSE i \in U : rank[i] = r
         IN <<SlotAt(p, i).offset,
              (SlotAt(p, i).offset + SlotAt(p, i).length) % U16>>]))

(* used_slots.windows(2).find_map(..): the closure runs on the pairs in order
   and stops at the first pair where it returns Some or panics.
   start2 - (start1 + end1) is a usize subtraction: below zero it panics in a
   debug build; in a release build it wraps to 2^w - (start1 + end1 - start2)
   with w the width of usize, which is >= length for every length the model
   passes (all far below 2^31), so the comparison is true. *)
WindowUnderflows(used, k) == used[k + 1][1] < used[k][1] + used[k][2]

WindowsFind(used, length, b) ==
  LET stops == {k \in 1..(Len(used) - 1) :
                  \/ WindowUnderflows(used, k)
                  \/ used[k + 1][1] - (used[k][1] + used[k][2]) >= length}
  IN IF stops = {} THEN None
     ELSE LET k == CHOOSE k \in stops : \A j \in stops : k <= j
          IN IF WindowUnderflows(used, k) /\ b = "debug" THEN Panic
             ELSE Some(used[k][2] % U16)

find_free_space_offset(p, length, b) ==
  IF UsedOverflows(p) /\ b = "debug" THEN Panic
  ELSE Let(UsedSorted(p), LAMBDA used :
         IF Len(used) = 0 THEN Some(0)
         ELSE IF used[1][1] >= length THEN Some(0)
         ELSE Let(WindowsFind(used, length, b), LAMBDA w :
                IF w.tag # "None" THEN w
                ELSE LET last_end == used[Len(used)][2]
                     IN IF last_end + length <= DATA_SIZE
                        THEN Some(last_end % U16)
                        ELSE None))

(* ------------------------------------------------------------------ *)
(* Page::insert_tuple.                                                 *)

(* Lines 191-192: the two header counters after a successful insert.
   total16 is total_tuple_len as u16. *)
header_after_insert_wrong(header, total16) ==
  [free_space |-> header.free_space - (total16 - TUPLE_HEADER_SIZE),
   total_free_slots |-> (header.total_free_slots - 1) % U16]

header_after_insert(header, total16) ==
  [free_space |-> header.free_space - total16,
   total_free_slots |-> (header.total_free_slots - 1) % U16]

(* A slot entry that records the payload length alone. *)
slot_after_insert_wrong(slot, offset, total16) ==
  [slot EXCEPT !.offset = offset, !.length = total16 - TUPLE_HEADER_SIZE,
               !.is_used = 1]

(* Lines 186-189: the slot entry of the new tuple. *)
slot_after_insert(slot, offset, total16) ==
  [slot EXCEPT !.offset = offset, !.length = total16, !.is_used = 1]

(* The outcome of a call: status is "Ok" (val the slot index), "Err" (val the
   message) or "Panic"; page is the page as the call leaves it. *)
Outcome(status, val, p) == [status |-> status, val |-> val, page |-> p]

(* Lines 171-194 of insert_tuple, once the slot and the offset are found. *)
place_tuple(p, slot_index, offset, xmin, xmax, page_no, tuple_data, b) ==
  LET total_tuple_len == TUPLE_HEADER_SIZE + Len(tuple_data)
      total16 == total_tuple_len % U16
      tuple_header == TupleHeader_new(xmin, xmax, page_no, slot_index % U16)
      with_header == CopyInto(p.data, offset, TupleHeader_to_bytes(tuple_header))
      with_tuple == CopyInto(with_header, offset + TUPLE_HEADER_SIZE, tuple_data)
      with_slot ==
        [p EXCEPT !.data = with_tuple,
                  !.slots[slot_index + 1] = slot_after_insert(@, offset, total16)]
  IN IF offset + total16 >= U16 /\ b = "debug"
       THEN Outcome("Panic", "offset + total_tuple_len", p)
     ELSE IF (offset + total16) % U16 > DATA_SIZE % U16
       THEN Outcome("Err", ErrNotEnoughContiguousSpace, p)
     ELSE IF offset + TUPLE_HEADER_SIZE > DATA_SIZE
       THEN Outcome("Panic", "header slice", p)
     ELSE IF offset + total_tuple_len > DATA_SIZE
       THEN Outcome("Panic", "tuple slice", [p EXCEPT !.data = with_header])
     ELSE IF p.header.total_free_slots = 0 /\ b = "debug"
       THEN Outcome("Panic", "total_free_slots - 1",
                    [with_slot EXCEPT !.header.free_space = @ - total16])
     ELSE Outcome("Ok", slot_index,
                  [with_slot EXCEPT !.header = header_after_insert(@, total16)])

insert_tuple(p, xmin, xmax, page_no, tuple_data, b) ==
  LET total_tuple_len == TUPLE_HEADER_SIZE + Len(tuple_data)
      total16 == total_tuple_len % U16
  IN IF total16 > p.header.free_space
       THEN Outcome("Err", ErrNotEnoughFreeSpace, p)
     ELSE Let(find_free_slot(p), LAMBDA free :
       IF free.tag = "None"
         THEN Outcome("Err", ErrNoFreeSlots, p)
       ELSE Let(find_free_space_offset(p, total_tuple_len, b), LAMBDA found :
         IF found.tag = "Panic"
           THEN Outcome("Panic", "find_free_space_offset", p)
         ELSE IF found.tag = "None"
           THEN Outcome("Err", ErrNoFreeDataSpace, p)
         ELSE place_tuple(p, free.val, found.val, xmin, xmax, page_no,
                          tuple_data, b)))

(* ------------------------------------------------------------------ *)
(* Page::read_slot and Page::scan_page.                                *)

read_slot(p, index) ==
  IF index >= MAX_SLOTS THEN None
  ELSE LET slot == SlotAt(p, index)
           offset == slot.offset
           start == offset + TUPLE_HEADER_SIZE
           end == offset + slot.length
       IN IF slot.is_used = 0 \/ slot.length = 0 THEN None
          ELSE IF end > DATA_SIZE THEN None
          ELSE IF offset + TUPLE_HEADER_SIZE > DATA_SIZE \/ start > end THEN Panic
          ELSE LET h == TupleHeader_from_bytes(
                          Slice(p.data, offset, offset + TUPLE_HEADER_SIZE))
               IN IF h.tag = "None" THEN None
                  ELSE Some(<<h.val, Slice(p.data, start, end)>>)

(* The elements of a set of slot indexes in ascending order. *)
Ascending(S) ==
  [r \in 1..Cardinality(S) |->
     CHOOSE i \in S : Cardinality({j \in S : j < i}) = r - 1]

(* The loop of scan_page visits the slots in index order, skips the unused
   and the empty ones, and pushes what read_slot returns when the header is
   visible; a panic in read_slot ends the call. *)
scan_page(p, txid) ==
  LET looked == {i \in SlotIdx :
                   ~(SlotAt(p, i).is_used = 0 \/ SlotAt(p, i).length = 0)}
      pushed == {i \in looked :
                   /\ read_slot(p, i).tag = "Some"
                   /\ is_visible(read_slot(p, i).val[1], txid)}
  IN IF \E i \in looked : read_slot(p, i).tag = "Panic" THEN Panic
     ELSE LET order == Ascending(pushed)
          IN Some([r \in DOMAIN order |-> read_slot(p, order[r]).val])

(* ------------------------------------------------------------------ *)
(* Page::to_bytes and Page::from_bytes.                                *)

Slot_bytes(s) ==
  to_le_bytes(s.offset, 2) \o to_le_bytes(s.length, 2) \o <<s.is_used, s._pad>>

(* The bytes the loop over self.slots appends for the slots lo..hi, in order. *)
RECURSIVE SlotsBytes(_, _, _)
SlotsBytes(slots, lo, hi) ==
  IF lo > hi THEN <<>>
  ELSE IF lo = hi THEN Slot_bytes(slots[lo + 1])
  ELSE LET mid == (lo + hi) \div 2
       IN SlotsBytes(slots, lo, mid) \o SlotsBytes(slots, mid + 1, hi)

(* while buf.len() < n { buf.push(0) } *)
PadTo(buf, n) ==
  IF Len(buf) < n THEN buf \o Zeros(n - Len(buf)) ELSE buf

to_bytes(p, b) ==
  LET head == to_le_bytes(p.id, 8) \o to_le_bytes(p.header.free_space, 2)
              \o SlotsBytes(p.slots, 0, MAX_SLOTS - 1)
      slots_bytes == MAX_SLOTS * (2 + 2 + 1 + 1)
      expected_header_and_slots == 2 + 2 + slots_bytes
      buf == PadTo(PadTo(head, expected_header_and_slots)
                   \o p.data,
                   PAGE_SIZE)
  IN IF b = "debug" /\ Len(buf) # PAGE_SIZE
     THEN [status |-> "Panic", val |-> "debug_assert_eq"]
     ELSE [status |-> "Ok", val |-> buf]

(* Slot i as from_bytes reads it, offset being the position of its first byte. *)
Slot_from(buf, offset) ==
  [offset |-> from_le_bytes(Slice(buf, offset, offset + 2)),
   length |-> from_le_bytes(Slice(buf, offset + 2, offset + 4)),
   is_used |-> buf[offset + 4 + 1],
   _pad |-> buf[offset + 5 + 1]]

from_bytes_wrong(buf) ==
  LET data_at == 8 + 2 + 2 + MAX_SLOTS * 6
  IN IF Len(buf) < PAGE_SIZE
       THEN [status |-> "Err", val |-> ErrInvalidPageSize]
     ELSE IF data_at + DATA_SIZE > Len(buf)
       THEN [status |-> "Panic", val |-> "data slice"]
     ELSE [status |-> "Ok", val |-> Page_new(from_le_bytes(Slice(buf, 0, 8)))]

from_bytes(buf) ==
  LET slots_at == 8 + 2 + 2
      data_at == slots_at + MAX_SLOTS * 6
  IN IF Len(buf) # PAGE_SIZE
       THEN [status |-> "Err", val |-> ErrInvalidPageSize]
     ELSE IF data_at + DATA_SIZE > Len(buf)
       THEN [status |-> "Panic", val |-> "data slice"]
     ELSE [status |-> "Ok",
           val |-> [id |-> from_le_bytes(Slice(buf, 0, 8)),
                    header |-> [free_space |-> from_le_bytes(Slice(buf, 8, 10)),
                                total_free_slots |->
                                  from_le_bytes(Slice(buf, 10, 12))],
                    slots |-> [i \in 1..MAX_SLOTS |->
                                 Slot_from(buf, slots_at + 6 * (i - 1))],
                    data |-> Slice(buf, data_at, data_at + DATA_SIZE)]]

(* ------------------------------------------------------------------ *)
(* The page under test and its callers.                                *)

PageIds == {3}
Tables == {"t", "u"}

(* A table file: whether it exists, and its bytes. *)
NoFile == [exists |-> FALSE, bytes |-> <<>>]

(* Parser::new over no tokens: the parser while the storage layer is at work. *)
NoParser == [tokens |-> <<>>, current |-> 0]

(* No call is in flight: every operation runs from its call to its return. *)
NoCalls == <<>>

(* Arguments of insert_tuple: "hello"; a three-byte payload; a payload that
   fills half of an empty page (2 * (32 + 3294) = DATA_SIZE); one whose total
   length is DATA_SIZE + 1; one whose total length is 65536 = 0 as u16. *)
TupleInputs ==
  { [xmin |-> 1, xmax |-> 0, page_no |-> 3, data |-> <<104, 101, 108, 108, 111>>],
    [xmin |-> 1, xmax |-> 2, page_no |-> 3, data |-> Payload(3, 1)],
    [xmin |-> 2, xmax |-> 0, page_no |-> 7, data |-> Payload(3294, 2)],
    [xmin |-> 0, xmax |-> 0, page_no |-> 3, data |-> Payload(6621, 3)],
    [xmin |-> 1, xmax |-> 0, page_no |-> 3, data |-> Payload(65504, 4)] }

Init ==
  /\ build \in Builds
  /\ page \in {Page_new(id) : id \in PageIds}
  /\ result = [op |-> "new", status |-> "Ok"]
  /\ hist = <<>>
  /\ files = [t \in Tables |-> NoFile]
  /\ parser = NoParser
  /\ calls = NoCalls

(* The last call and its outcome are kept in result: status is "Ok", "Err"
   or "Panic"; an Ok result carries the returned value, the others the error
   message in err. *)

(* page.insert_tuple(xmin, xmax, page_no, tuple_data). hist records the
   arguments and the returned slot of every call that returned Ok. *)
InsertTupleStep(inp) ==
  \E r \in {insert_tuple(page, inp.xmin, inp.xmax, inp.page_no, inp.data, build)} :
     /\ page' = r.page
     /\ result' = IF r.status = "Ok"
                  THEN [op |-> "insert_tuple", status |-> r.status,
                        len |-> Len(inp.data), slot |-> r.val]
                  ELSE [op |-> "insert_tuple", status |-> r.status,
                        len |-> Len(inp.data), err |-> r.val]
     /\ hist' = IF r.status = "Ok"
                THEN Append(hist, [xmin |-> inp.xmin, xmax |-> inp.xmax,
                                   page_no |-> inp.page_no, data |-> inp.data,
                                   slot |-> r.val])
                ELSE hist

InsertTuple ==
  /\ Len(hist) < MaxInserts
  /\ \E inp \in TupleInputs : InsertTupleStep(inp)
  /\ UNCHANGED <<build, files, parser, calls>>

(* page.scan_page(txid). *)
ScanPage ==
  /\ \E txid \in 0..MaxTxid :
       \E r \in {scan_page(page, txid)} :
          result' = IF r.tag = "Panic"
                    THEN [op |-> "scan_page", txid |-> txid, status |-> "Panic",
                          err |-> "read_slot"]
                    ELSE [op |-> "scan_page", txid |-> txid, status |-> "Ok",
                          entries |-> r.val]
  /\ UNCHANGED <<build, page, hist, files, parser, calls>>

(* page.to_bytes(). *)
ToBytes ==
  /\ \E r \in {to_bytes(page, build)} :
       result' = IF r.status = "Ok"
                 THEN [op |-> "to_bytes", status |-> r.status, buf |-> r.val]
                 ELSE [op |-> "to_bytes", status |-> r.status, err |-> r.val]
  /\ UNCHANGED <<build, page, hist, files, parser, calls>>

(* Page::from_bytes(&page.to_bytes()). *)
RoundTrip ==
  /\ \E w \in {to_bytes(page, build)} :
     \E r \in {IF w.status = "Ok" THEN from_bytes(w.val) ELSE w} :
       result' = IF r.status = "Ok"
                 THEN [op |-> "round_trip", status |-> r.status, decoded |-> r.val]
                 ELSE [op |-> "round_trip", status |-> r.status, err |-> r.val]
  /\ UNCHANGED <<build, page, hist, files, parser, calls>>

Next == InsertTuple \/ ScanPage \/ ToBytes \/ RoundTrip

Spec == Init /\ [][Next]_vars

(* ------------------------------------------------------------------ *)
(* TupleHeader::is_visible on its own.                                 *)

MaxId == 12

(* The transaction ids tried: as xmin, as xmax, and as the reader's txid. *)
Xmins == {0, 5, 9}
Xmaxs == {0, 5, 10}
Txids == 0..MaxId \cup {100}

IsVisible ==
  /\ \E xmin \in Xmins, xmax \in Xmaxs, txid \in Txids :
       result' = [op |-> "is_visible", xmin |-> xmin, xmax |-> xmax, txid |-> txid,
                  status |-> "Ok",
                  visible |-> is_visible(TupleHeader_new(xmin, xmax, 0, 0), txid)]
  /\ UNCHANGED <<build, page, hist, files, parser, calls>>

SpecVis == Init /\ [][IsVisible]_vars

(* ------------------------------------------------------------------ *)
(* Pages a caller builds through the public fields of Page: the first  *)
(* `used` slots used, each of `len` bytes, laid out one after another, *)
(* and free_space set to fs.                                           *)

BuiltPage(id, used, len, fs) ==
  [id |-> id,
   header |-> [free_space |-> fs, total_free_slots |-> MAX_SLOTS - used],
   slots |-> SubSeq([i \in 1..MAX_SLOTS |->
                       IF i <= used
                       THEN [offset |-> (i - 1) * len, length |-> len,
                             is_used |-> 1, _pad |-> 0]
                       ELSE Slot_new], 1, MAX_SLOTS),
   data |-> Zeros(DATA_SIZE)]

BuiltPages ==
  {BuiltPage(id, used, len, fs) :
     id \in PageIds, used \in {MAX_SLOTS - 1, MAX_SLOTS}, len \in {0, 20, 25},
     fs \in {0, 32, 36, 40, DATA_SIZE - MAX_SLOTS * 25}}

InitBuilt ==
  /\ build \in Builds
  /\ page \in BuiltPages
  /\ result = [op |-> "new", status |-> "Ok"]
  /\ hist = <<>>
  /\ files = [t \in Tables |-> NoFile]
  /\ parser = NoParser
  /\ calls = NoCalls

SpecBuilt == InitBuilt /\ [][InsertTuple]_vars

(* ------------------------------------------------------------------ *)
(* Page::from_bytes on its own, on buffers of any length.              *)

MaxSeed == 5

(* Buffer lengths: empty, shorter than the id, up to the header, up to the
   slots, one short of a page, a page, one over, the length to_bytes
   produces, the length the reads of from_bytes span, and two pages. *)
DecodeLens ==
  {0, 1, 11, 12, 12 + MAX_SLOTS * SLOT_SIZE, PAGE_SIZE - 1, PAGE_SIZE,
   PAGE_SIZE + 1, PAGE_SIZE + 6, PAGE_SIZE + 8, 2 * PAGE_SIZE}

(* Page::from_bytes(buf), buf being Payload(len, seed). *)
FromBytes ==
  /\ \E len \in DecodeLens, seed \in 1..MaxSeed :
       \E r \in {from_bytes(Payload(len, seed))} :
         result' = IF r.status = "Ok"
                   THEN [op |-> "from_bytes", len |-> len, seed |-> seed,
                         status |-> r.status, decoded |-> r.val]
                   ELSE [op |-> "from_bytes", len |-> len, seed |-> seed,
                         status |-> r.status, err |-> r.val]
  /\ UNCHANGED <<build, page, hist, files, parser, calls>>

SpecDecode == Init /\ [][FromBytes]_vars

(* ------------------------------------------------------------------ *)
(* IOManager (io_manager.rs).                                          *)

MaxPages == 3

(* file.write_all(data) with the cursor at offset: the bytes at
   offset .. offset + len(data) are replaced, the file grows when the write
   ends past its end, and a gap between the old end and offset reads as zeros. *)
WriteAt(bytes, offset, data) ==
  LET gap == IF offset > Len(bytes) THEN Zeros(offset - Len(bytes)) ELSE <<>>
  IN SubSeq(bytes, 1, offset) \o gap \o data
     \o SubSeq(bytes, offset + Len(data) + 1, Len(bytes))

(* IOManager::read_page. *)
read_page_wrong(fs, table_name, page_no) ==
  LET file == fs[table_name]
      offset == page_no * PAGE_SIZE
  IN IF ~file.exists THEN [status |-> "Err", val |-> "NotFound"]
     ELSE IF Len(file.bytes) < offset + PAGE_SIZE
       THEN [status |-> "Ok", val |-> Page_new(page_no)]
     ELSE from_bytes(Slice(file.bytes, offset, offset + PAGE_SIZE))

read_page(fs, table_name, page_no) ==
  LET file == fs[table_name]
      offset == page_no * PAGE_SIZE
  IN IF ~file.exists THEN [status |-> "Err", val |-> "NotFound"]
     ELSE IF Len(file.bytes) < offset + PAGE_SIZE
       THEN [status |-> "Err", val |-> "UnexpectedEof"]
     ELSE from_bytes(Slice(file.bytes, offset, offset + PAGE_SIZE))

(* Lines 47-49 of insert_page: the page number computed from the file length
   that file.metadata() reports. *)
new_page_no_of_wrong(file_len) == file_len \div PAGE_SIZE

new_page_no_of(file_len) == (file_len \div PAGE_SIZE) - 1

(* IOManager::insert_page: the file after the call, and what the call returns. *)
insert_page_wrong(fs, table_name, raw) ==
  LET bytes == fs[table_name].bytes \o raw
  IN [files |-> [fs EXCEPT ![table_name] = [exists |-> TRUE, bytes |-> bytes]],
      status |-> "Ok", val |-> Len(bytes) \div PAGE_SIZE]

insert_page(fs, table_name, raw) ==
  LET bytes == fs[table_name].bytes \o raw
      file_len == Len(bytes)
      new_page_no == new_page_no_of(file_len)
  IN [files |-> [fs EXCEPT ![table_name] = [exists |-> TRUE, bytes |-> bytes]],
      status |-> "Ok", val |-> new_page_no]

(* A flush that writes whatever to_bytes returned, with no check of its length. *)
flush_page_wrong(fs, table_name, p, b) ==
  LET opened == [fs EXCEPT ![table_name] = [exists |-> TRUE, bytes |-> @.bytes]]
      offset == p.id * PAGE_SIZE
      bytes == to_bytes(p, b)
  IN IF bytes.status = "Panic"
       THEN [files |-> opened, status |-> "Panic", val |-> bytes.val]
     ELSE [files |-> [opened EXCEPT ![table_name].bytes =
                        WriteAt(@, offset, bytes.val)],
           status |-> "Ok", val |-> "()"]

(* IOManager::flush_page: OpenOptions::create(true) makes the file when it is
   absent, before to_bytes and the assertion run. *)
flush_page(fs, table_name, p, b) ==
  LET opened == [fs EXCEPT ![table_name] = [exists |-> TRUE, bytes |-> @.bytes]]
      offset == p.id * PAGE_SIZE
      bytes == to_bytes(p, b)
  IN IF bytes.status = "Panic"
       THEN [files |-> opened, status |-> "Panic", val |-> bytes.val]
     ELSE IF Len(bytes.val) # PAGE_SIZE
       THEN [files |-> opened, status |-> "Panic",
             val |-> "Page must be exactly PAGE_SIZE bytes"]
     ELSE [files |-> [opened EXCEPT ![table_name].bytes =
                        WriteAt(@, offset, bytes.val)],
           status |-> "Ok", val |-> "()"]

(* The raw page buffers callers hand to insert_page. *)
RawPages == {Payload(PAGE_SIZE, 1)}

(* The pages callers hand to flush_page: an empty page with id 2, and a page
   with id 0 holding one tuple. *)
IOPages ==
  {Page_new(2),
   insert_tuple(Page_new(0), 1, 0, 0, <<104, 101, 108, 108, 111>>, "release").page}

InitIO ==
  /\ build \in Builds
  /\ page \in IOPages
  /\ result = [op |-> "new", status |-> "Ok"]
  /\ hist = <<>>
  /\ files = [t \in Tables |-> NoFile]
  /\ parser = NoParser
  /\ calls = NoCalls

ReadPage ==
  /\ \E t \in Tables, n \in 0..MaxPages :
       \E r \in {read_page(files, t, n)} :
         result' = IF r.status = "Ok"
                   THEN [op |-> "read_page", table |-> t, page_no |-> n,
                         status |-> r.status, decoded |-> r.val]
                   ELSE [op |-> "read_page", table |-> t, page_no |-> n,
                         status |-> r.status, err |-> r.val]
  /\ UNCHANGED <<build, page, hist, files, parser, calls>>

(* hist records, for every call of insert_page, the table and the number
   returned. *)
InsertPage ==
  /\ \E t \in Tables, raw \in RawPages :
       /\ Len(hist) < MaxPages
       /\ \E r \in {insert_page(files, t, raw)} :
            /\ files' = r.files
            /\ result' = [op |-> "insert_page", table |-> t,
                          status |-> r.status, new_page_no |-> r.val]
            /\ hist' = Append(hist, [table |-> t, new_page_no |-> r.val])
  /\ UNCHANGED <<build, page, parser, calls>>

FlushPage ==
  /\ \E t \in Tables :
       \E r \in {flush_page(files, t, page, build)} :
         /\ files' = r.files
         /\ result' = IF r.status = "Ok"
                      THEN [op |-> "flush_page", table |-> t, status |-> r.status]
                      ELSE [op |-> "flush_page", table |-> t, status |-> r.status,
                            err |-> r.val]
  /\ UNCHANGED <<build, page, hist, parser, calls>>

NextIO == ReadPage \/ InsertPage \/ FlushPage

SpecIO == InitIO /\ [][NextIO]_vars

(* ------------------------------------------------------------------ *)
(* Concurrent callers of IOManager. IOManager holds no lock and each   *)
(* call opens the table file itself, so the calls of two threads on    *)
(* one table interleave between their system calls: open, write_all    *)
(* and metadata for insert_page; open with seek, then to_bytes, the    *)
(* assertion and write_all for flush_page. calls[c] is the call of     *)
(* caller c: its operation, its position (pc), whether no other call   *)
(* was in progress when it started (alone), the index of the page it   *)
(* appended (wrote), the number it returned (ret), each -1 until       *)
(* known, and its outcome. hist lists the callers in the order their   *)
(* calls ended.                                                        *)
MaxCallers == 2

Callers == 1..MaxCallers

RaceTable == "t"

(* The buffer caller c hands to insert_page. *)
RawOf(c) == Payload(PAGE_SIZE, c)

(* The page caller c hands to flush_page: id 0 for every caller, one tuple
   whose xmin is c. *)
PageOf(c) ==
  insert_tuple(Page_new(0), c, 0, 0, <<104, 101, 108, 108, 111>>, "release").page

NewCall(op) ==
  [op |-> op, pc |-> "start", alone |-> TRUE, wrote |-> -1, ret |-> -1,
   status |-> "Running"]

InProgress(c) == calls[c].pc \notin {"start", "done"}

InitRace ==
  /\ build \in Builds
  /\ page = Page_new(0)
  /\ result = [op |-> "new", status |-> "Ok"]
  /\ hist = <<>>
  /\ files \in {[t \in Tables |-> IF t = RaceTable THEN f ELSE NoFile] :
                  f \in {NoFile, [exists |-> TRUE, bytes |-> RawOf(0)]}}
  /\ parser = NoParser
  /\ calls \in [Callers -> {NewCall(op) : op \in {"insert_page", "flush_page"}}]

(* OpenOptions::new().create(true)...open(file_path): lines 40-43 of
   insert_page and lines 56-63 of flush_page (the seek moves the cursor of the
   caller's own file handle). *)
OpenFile(c) ==
  /\ calls[c].pc = "start"
  /\ files' = [files EXCEPT ![RaceTable] = [exists |-> TRUE, bytes |-> @.bytes]]
  /\ calls' = [calls EXCEPT ![c].pc = "opened",
                            ![c].alone = \A d \in Callers \ {c} : ~InProgress(d)]
  /\ UNCHANGED <<build, page, result, hist, parser>>

(* file.write_all(page) on a file opened with append(true): line 45. *)
AppendPage(c) ==
  /\ calls[c].op = "insert_page" /\ calls[c].pc = "opened"
  /\ files' = [files EXCEPT ![RaceTable].bytes = @ \o RawOf(c)]
  /\ calls' = [calls EXCEPT ![c].pc = "written",
                            ![c].wrote = Len(files[RaceTable].bytes) \div PAGE_SIZE]
  /\ UNCHANGED <<build, page, result, hist, parser>>

(* file.metadata()?.len() and the return: lines 47-51. *)
ReadLength(c) ==
  /\ calls[c].op = "insert_page" /\ calls[c].pc = "written"
  /\ calls' = [calls EXCEPT ![c].pc = "done", ![c].status = "Ok",
                            ![c].ret = new_page_no_of(Len(files[RaceTable].bytes))]
  /\ hist' = Append(hist, c)
  /\ UNCHANGED <<build, page, result, files, parser>>

(* page.to_bytes(), the assertion and file.write_all(&bytes): lines 65-73 of
   flush_page. *)
WritePage(c) ==
  /\ calls[c].op = "flush_page" /\ calls[c].pc = "opened"
  /\ \E r \in {flush_page(files, RaceTable, PageOf(c), build)} :
       /\ files' = r.files
       /\ calls' = [calls EXCEPT ![c].pc = "done", ![c].status = r.status]
  /\ hist' = Append(hist, c)
  /\ UNCHANGED <<build, page, result, parser>>

NextRace ==
  \E c \in Callers : OpenFile(c) \/ AppendPage(c) \/ ReadLength(c) \/ WritePage(c)

SpecRace == InitRace /\ [][NextRace]_vars

(* Every call that has started ran with no other call in progress. *)
Serialized == \A c \in Callers : calls[c].pc # "start" => calls[c].alone

(* ------------------------------------------------------------------ *)
(* Filling a page with the smallest tuples: insert_tuple with an empty *)
(* payload (32 bytes with the header), called until the page rejects   *)
(* it.                                                                 *)
MaxFill == 210

FillInputs == { [xmin |-> 1, xmax |-> 0, page_no |-> 3, data |-> <<>>] }

InsertSmallest ==
  /\ Len(hist) < MaxFill
  /\ \E inp \in FillInputs : InsertTupleStep(inp)
  /\ UNCHANGED <<build, files, parser, calls>>

SpecFill == Init /\ [][InsertSmallest]_vars

(* ------------------------------------------------------------------ *)
(* Parser of parser_v2 (parser.rs): the WHERE clause.                  *)
(* A parser value is [tokens, current]; a token is [token_type,        *)
(* lexeme]. Every operation returns its outcome together with the      *)
(* parser it leaves. The tokens tried hold no SELECT, so a subquery    *)
(* after IN is never entered.                                          *)

MaxSyms == 7

Tok(token_type, lexeme) == [token_type |-> token_type, lexeme |-> lexeme]

Parser_new(tokens) == [tokens |-> tokens, current |-> 0]

POut(status, val, p) == [status |-> status, val |-> val, parser |-> p]

is_at_end(p) == p.current >= Len(p.tokens)

(* self.tokens[self.current]: callers test is_at_end where the code would
   index out of range. *)
peek(p) == p.tokens[p.current + 1]

check(p, token_type) == ~is_at_end(p) /\ peek(p).token_type = token_type

Advance(p) == [p EXCEPT !.current = @ + 1]

(* Parser::consume. The error message is built from tokens[current], which
   is out of range at the end of the tokens. *)
consume(p, token_type, message) ==
  IF check(p, token_type) THEN POut("Ok", peek(p), Advance(p))
  ELSE IF is_at_end(p) THEN POut("Panic", "index out of bounds", p)
  ELSE POut("Err", message, p)

Expr_Identifier(lexeme) == [kind |-> "Identifier", name |-> lexeme]
Expr_Literal(lexeme) == [kind |-> "Literal", value |-> lexeme]

parse_expression(p) ==
  IF check(p, "Literal") THEN POut("Ok", Expr_Literal(peek(p).lexeme), Advance(p))
  ELSE IF check(p, "Identifier")
    THEN POut("Ok", Expr_Identifier(peek(p).lexeme), Advance(p))
  ELSE POut("Err", "Expected a valid expression", p)

parse_expression_for_input(token) ==
  IF token.token_type = "Literal" THEN Expr_Literal(token.lexeme)
  ELSE Expr_Identifier(token.lexeme)

ComparisonTypes ==
  {"EqualTo", "NotEqualTo", "GreaterThan", "LessThan", "LessThanOrEqualTo",
   "GreaterThanOrEqualTo"}

(* The ComparisonOperator parse_primary_condition gives for a token type. *)
ComparisonOperator(token_type) ==
  CASE token_type = "EqualTo" -> "EqualTo"
    [] token_type = "NotEqualTo" -> "NotEqual"
    [] token_type = "GreaterThan" -> "GreaterThan"
    [] token_type = "LessThan" -> "LessThan"
    [] token_type = "LessThanOrEqualTo" -> "LessThanOrEqual"
    [] token_type = "GreaterThanOrEqualTo" -> "GreaterThanOrEqual"

Comparison(operator, left, right) ==
  [kind |-> "Comparison", operator |-> operator, left |-> left, right |-> right]

Logical(left, operator, right) ==
  [kind |-> "Logical", left |-> left, operator |-> operator, right |-> right]

Not(condition) == [kind |-> "Not", inner |-> condition]

(* The loop that reads the values of IN ( .. ): values of type first, commas,
   then the closing parenthesis. *)
RECURSIVE in_values(_, _, _)
in_values(p, first, values) ==
  IF check(p, first)
    THEN in_values(parse_expression(p).parser, first,
                   Append(values, parse_expression(p).val))
  ELSE IF check(p, "Comma") THEN in_values(Advance(p), first, values)
  ELSE IF check(p, "CloseParen") THEN POut("Ok", values, Advance(p))
  ELSE POut("Err", "input of different types found", p)

(* Parser::parse_primary_condition(token), token being self.peek(). *)
parse_primary_condition(p) ==
  LET lhs == peek(p)
      p1 == Advance(p)
  IN IF is_at_end(p1) THEN POut("Panic", "index out of bounds", p1)
     ELSE LET token == peek(p1)
              p2 == Advance(p1)
          IN CASE token.token_type = "Is" ->
                    IF is_at_end(p2) THEN POut("Panic", "index out of bounds", p2)
                    ELSE IF peek(p2).token_type = "Not"
                      THEN LET n == consume(Advance(p2), "Null", "expected NULL")
                           IN IF n.status # "Ok" THEN n
                              ELSE POut("Ok", [kind |-> "IsNotNull",
                                               identifier |-> lhs.lexeme], n.parser)
                    ELSE IF peek(p2).token_type = "Null"
                      THEN POut("Ok", [kind |-> "IsNull",
                                       identifier |-> lhs.lexeme], p2)
                    ELSE POut("Err", "unexpected token found after IS", p2)
               [] token.token_type = "In" ->
                    LET o == consume(p2, "OpenParen", "expectd (")
                        first == IF check(o.parser, "Identifier") THEN "Identifier"
                                 ELSE IF check(o.parser, "Literal") THEN "Literal"
                                 ELSE "none"
                        vs == in_values(o.parser, first, <<>>)
                    IN IF o.status # "Ok" THEN o
                       ELSE IF first = "none"
                         THEN POut("Err", "should not reach here", o.parser)
                       ELSE IF vs.status # "Ok" THEN vs
                       ELSE POut("Ok", [kind |-> "In",
                                        left |-> parse_expression_for_input(lhs),
                                        values |-> vs.val], vs.parser)
               [] token.token_type \in ComparisonTypes ->
                    LET right == parse_expression(p2)
                    IN IF right.status # "Ok" THEN right
                       ELSE POut("Ok",
                                 Comparison(ComparisonOperator(token.token_type),
                                            parse_expression_for_input(lhs),
                                            right.val),
                                 right.parser)
               [] OTHER -> POut("Err", "should not reach here", p1)

operator_precedence_wrong(sql_token) ==
  CASE sql_token = "And" -> 1
    [] sql_token = "Or" -> 1
    [] OTHER -> 0

operator_precedence(sql_token) ==
  CASE sql_token = "And" -> 2
    [] sql_token = "Or" -> 1
    [] OTHER -> 0

(* The two pop_back calls and the push_back of the Logical condition built
   from them; LogicalOperator::match_sql_token_to_operator refuses a token
   that is neither AND nor OR. *)
Combine(queue, sql_token) ==
  IF Len(queue) < 2 THEN [status |-> "Err", err |-> "Invalid WHERE clause"]
  ELSE IF sql_token \notin {"And", "Or"}
    THEN [status |-> "Err", err |-> "unexpected token"]
  ELSE [status |-> "Ok",
        queue |-> Append(SubSeq(queue, 1, Len(queue) - 2),
                         Logical(queue[Len(queue) - 1], sql_token,
                                 queue[Len(queue)]))]

Front(s) == SubSeq(s, 1, Len(s) - 1)

SQ(stack, queue) == [status |-> "Ok", stack |-> stack, queue |-> queue]

(* Types::CloseParen: pop operators down to the nearest open parenthesis. *)
RECURSIVE close_paren_loop(_, _)
close_paren_loop(stack, queue) ==
  IF stack = <<>> THEN SQ(stack, queue)
  ELSE IF stack[Len(stack)].token_type = "OpenParen" THEN SQ(Front(stack), queue)
  ELSE LET c == Combine(queue, stack[Len(stack)].token_type)
       IN IF c.status # "Ok" THEN c ELSE close_paren_loop(Front(stack), c.queue)

(* Types::And | Types::Or: pop the operators that bind at least as tightly. *)
RECURSIVE and_or_loop(_, _, _)
and_or_loop(stack, queue, sql_token) ==
  IF stack = <<>> THEN SQ(stack, queue)
  ELSE IF \/ stack[Len(stack)].token_type = "OpenParen"
          \/ operator_precedence(sql_token)
               > operator_precedence(stack[Len(stack)].token_type)
    THEN SQ(stack, queue)
  ELSE LET c == Combine(queue, stack[Len(stack)].token_type)
       IN IF c.status # "Ok" THEN c
          ELSE and_or_loop(Front(stack), c.queue, sql_token)

(* The loop after the tokens: pop every operator left. *)
RECURSIVE drain_loop(_, _)
drain_loop(stack, queue) ==
  IF stack = <<>> THEN SQ(stack, queue)
  ELSE LET c == Combine(queue, stack[Len(stack)].token_type)
       IN IF c.status # "Ok" THEN c ELSE drain_loop(Front(stack), c.queue)

(* What handle_where_clause returns: the condition or the error, the parser
   it leaves, and the sizes of the operator stack and of the output queue
   just before the final pop_back. *)
WOut(status, val, p, stack_len, queue_len) ==
  [status |-> status, val |-> val, parser |-> p,
   stack_len |-> stack_len, queue_len |-> queue_len]

(* Parser::handle_where_clause: where_loop is its while loop, with the
   operator stack and the output queue. *)
RECURSIVE handle_where_clause(_)
RECURSIVE where_loop(_, _, _)
where_loop(p, stack, queue) ==
  IF is_at_end(p) \/ check(p, "OrderBy")
    THEN LET d == drain_loop(stack, queue)
         IN IF d.status # "Ok" THEN WOut("Err", d.err, p, 0, 0)
            ELSE IF d.queue = <<>> THEN WOut("Err", "Empty WHERE clause", p, 0, 0)
            ELSE WOut("Ok", d.queue[Len(d.queue)], p, Len(d.stack), Len(d.queue))
  ELSE
    LET token == peek(p)
    IN CASE token.token_type \in {"Literal", "Identifier"} ->
              LET r == parse_primary_condition(p)
              IN IF r.status # "Ok" THEN WOut(r.status, r.val, r.parser, 0, 0)
                 ELSE where_loop(r.parser, stack, Append(queue, r.val))
         [] token.token_type = "Not" ->
              LET p1 == Advance(p)
                  r == IF check(p1, "OpenParen") THEN handle_where_clause(p1)
                       ELSE IF is_at_end(p1)
                         THEN POut("Panic", "index out of bounds", p1)
                       ELSE parse_primary_condition(p1)
              IN IF r.status # "Ok" THEN WOut(r.status, r.val, r.parser, 0, 0)
                 ELSE where_loop(r.parser, stack, Append(queue, Not(r.val)))
         [] token.token_type = "OpenParen" ->
              where_loop(Advance(p), Append(stack, token), queue)
         [] token.token_type = "CloseParen" ->
              LET c == close_paren_loop(stack, queue)
              IN IF c.status # "Ok" THEN WOut("Err", c.err, Advance(p), 0, 0)
                 ELSE where_loop(Advance(p), c.stack, c.queue)
         [] token.token_type \in {"And", "Or"} ->
              LET c == and_or_loop(stack, queue, token.token_type)
              IN IF c.status # "Ok" THEN WOut("Err", c.err, p, 0, 0)
                 ELSE where_loop(Advance(p), Append(c.stack, token), c.queue)
         [] OTHER -> WOut("Err", "Unexpected token in WHERE clause", p, 0, 0)

handle_where_clause(p) == where_loop(p, <<>>, <<>>)

(* The WHERE clauses tried. A shape is a sequence of symbols: "x" a
   comparison, "AND", "OR", "(" and ")"; Shapes(n) are the shapes of n symbols
   in which comparisons are joined by AND and OR and groups are
   parenthesised. *)
RECURSIVE Shapes(_)
Shapes(n) ==
  IF n < 1 THEN {}
  ELSE IF n = 1 THEN {<<"x">>}
  ELSE {<<"(">> \o e \o <<")">> : e \in Shapes(n - 2)}
       \cup UNION {{l \o <<op>> \o r :
                      l \in Shapes(k), r \in Shapes(n - 1 - k), op \in {"AND", "OR"}} :
                   k \in 1..(n - 2)}

WhereShapes == UNION {Shapes(n) : n \in 1..MaxSyms}

(* The k-th comparison of a clause: column k compared with literal k. *)
Columns == <<"a", "b", "c", "d", "e">>
Literals == <<"1", "2", "3", "4", "5">>
Comparators == <<"EqualTo", "GreaterThan", "NotEqualTo", "LessThan", "EqualTo">>

ComparisonTokens(k) ==
  <<Tok("Identifier", Columns[k]), Tok(Comparators[k], "op"),
    Tok("Literal", Literals[k])>>

(* The tokens of a shape from symbol i on, k comparisons having come before. *)
RECURSIVE ShapeTokens(_, _, _)
ShapeTokens(shape, i, k) ==
  IF i > Len(shape) THEN <<>>
  ELSE CASE shape[i] = "x" ->
              ComparisonTokens(k + 1) \o ShapeTokens(shape, i + 1, k + 1)
         [] shape[i] = "AND" -> <<Tok("And", "AND")>> \o ShapeTokens(shape, i + 1, k)
         [] shape[i] = "OR" -> <<Tok("Or", "OR")>> \o ShapeTokens(shape, i + 1, k)
         [] shape[i] = "(" -> <<Tok("OpenParen", "(")>> \o ShapeTokens(shape, i + 1, k)
         [] OTHER -> <<Tok("CloseParen", ")")>> \o ShapeTokens(shape, i + 1, k)

(* What follows the WHERE clause: nothing, or ORDER BY a. *)
ClauseTails == {<<>>, <<Tok("OrderBy", "ORDER BY"), Tok("Identifier", "a")>>}

WhereInputs ==
  {ShapeTokens(shape, 1, 0) \o tail : shape \in WhereShapes, tail \in ClauseTails}

(* The parser stands after the WHERE keyword of one of the inputs. *)
InitWhere ==
  /\ build \in Builds
  /\ page \in {Page_new(id) : id \in PageIds}
  /\ result = [op |-> "new", status |-> "Ok"]
  /\ hist = <<>>
  /\ files = [t \in Tables |-> NoFile]
  /\ parser \in {Parser_new(tokens) : tokens \in WhereInputs}
  /\ calls = NoCalls

(* self.handle_where_clause(), called once on the parser. *)
HandleWhereClause ==
  /\ result.op = "new"
  /\ \E r \in {handle_where_clause(parser)} :
       /\ parser' = r.parser
       /\ result' = IF r.status = "Ok"
                    THEN [op |-> "handle_where_clause", status |-> r.status,
                          condition |-> r.val, stack_len |-> r.stack_len,
                          queue_len |-> r.queue_len]
                    ELSE [op |-> "handle_where_clause", status |-> r.status,
                          err |-> r.val]
  /\ UNCHANGED <<build, page, hist, files, calls>>

SpecWhere == InitWhere /\ [][HandleWhereClause]_vars

(* ------------------------------------------------------------------ *)
(* Parser::parse_and_build_ast and Parser::select_statement. The call  *)
(* is followed statement by statement: calls is the frame of the call, *)
(* with its position pc ("start", "select_statement", "clauses" for    *)
(* the while loop of lines 95-129, "done"), the locals columns, from,  *)
(* where_clause and order_by, and tick, the parity of the number of    *)
(* iterations of the while loop run so far.                            *)
MaxColumns == 2

(* Lines 66-83: the loop over the select list. *)
RECURSIVE select_columns(_, _)
select_columns(p, columns) ==
  IF check(p, "AllColumnsOrMultiplication")
    THEN POut("Ok", Append(columns, "All"), Advance(p))
  ELSE IF check(p, "Identifier")
    THEN LET pushed == Append(columns, peek(p).lexeme)
             p1 == Advance(p)
         IN IF ~check(p1, "Comma") THEN POut("Ok", pushed, p1)
            ELSE select_columns(Advance(p1), pushed)
  ELSE POut("Err", "Expected column name or *", p)

(* Lines 64-90: SELECT, the select list, FROM and the table name. *)
select_head(p) ==
  Let(consume(p, "Select", "expected SELECT keyword"), LAMBDA s :
    IF s.status # "Ok" THEN s
    ELSE Let(select_columns(s.parser, <<>>), LAMBDA c :
      IF c.status # "Ok" THEN c
      ELSE Let(consume(c.parser, "From", "expected FROM keyword"), LAMBDA f :
        IF f.status # "Ok" THEN f
        ELSE Let(consume(f.parser, "Identifier", "expected table name"), LAMBDA t :
          IF t.status # "Ok" THEN t
          ELSE POut("Ok", [columns |-> c.val, from |-> t.val.lexeme], t.parser)))))

(* Lines 103-125: the loop over the ORDER BY columns. *)
RECURSIVE order_by_loop(_, _)
order_by_loop(p, order_by_columns) ==
  Let(consume(p, "Identifier", "expected column name"), LAMBDA c :
    IF c.status # "Ok" THEN c
    ELSE LET p1 == c.parser
             asc == check(p1, "AscendingOrder")
             desc == ~asc /\ check(p1, "DecendingOrder")
             p2 == IF asc \/ desc THEN Advance(p1) ELSE p1
             pushed == Append(order_by_columns,
                              [column_name |-> c.val.lexeme, is_asec |-> ~desc])
         IN IF ~check(p2, "Comma") THEN POut("Ok", pushed, p2)
            ELSE order_by_loop(Advance(p2), pushed))

(* What one iteration of the while loop leaves. *)
COut(status, val, p, where_clause, order_by) ==
  [status |-> status, val |-> val, parser |-> p,
   where_clause |-> where_clause, order_by |-> order_by]

(* Lines 96-128: the body of the while loop, one iteration. It has two
   if statements and no else: a token that is neither WHERE nor ORDER BY is
   left where it is. *)
clause_iteration(p, where_clause, order_by) ==
  Let(IF check(p, "Where")
        THEN Let(handle_where_clause(Advance(p)), LAMBDA w :
               IF w.status # "Ok"
                 THEN COut(w.status, w.val, w.parser, where_clause, order_by)
               ELSE COut("Ok", "", w.parser, Some(w.val), order_by))
      ELSE COut("Ok", "", p, where_clause, order_by), LAMBDA a :
    IF a.status # "Ok" THEN a
    ELSE IF check(a.parser, "OrderBy")
      THEN Let(order_by_loop(Advance(a.parser), <<>>), LAMBDA o :
             IF o.status # "Ok"
               THEN COut(o.status, o.val, o.parser, a.where_clause, order_by)
             ELSE COut("Ok", "", o.parser, a.where_clause, Some(o.val)))
    ELSE a)

(* The statements tried: SELECT, a select list, FROM, a table name, and what
   follows the table name; statements cut short; and token sequences that do
   not begin with SELECT. *)
ColumnLists ==
  {<<Tok("AllColumnsOrMultiplication", "*")>>}
  \cup {<<Tok("Identifier", Columns[1])>>}
  \cup {<<Tok("Identifier", Columns[1]), Tok("Comma", ","),
          Tok("Identifier", Columns[k])>> : k \in 2..MaxColumns}
  \cup {<<Tok("Identifier", Columns[1]), Tok("Comma", ",")>>, <<>>}

AfterList ==
  {<<Tok("From", "FROM"), Tok("Identifier", "t")>>,
   <<Tok("From", "FROM")>>, <<Tok("Identifier", "t")>>, <<>>}

WhereTokens == <<Tok("Where", "WHERE")>> \o ComparisonTokens(1)

OrderByTokens == <<Tok("OrderBy", "ORDER BY"), Tok("Identifier", "a")>>

AfterTable ==
  {<<>>,
   <<Tok("Semicolon", ";")>>,
   <<Tok("Identifier", "x")>>,
   WhereTokens,
   WhereTokens \o <<Tok("And", "AND")>> \o ComparisonTokens(2),
   WhereTokens \o <<Tok("Semicolon", ";")>>,
   WhereTokens \o OrderByTokens,
   WhereTokens \o OrderByTokens \o <<Tok("Semicolon", ";")>>,
   OrderByTokens,
   OrderByTokens \o <<Tok("DecendingOrder", "DESC")>>,
   OrderByTokens \o <<Tok("AscendingOrder", "ASC"), Tok("Comma", ","),
                      Tok("Identifier", "b")>>,
   OrderByTokens \o <<Tok("Comma", ",")>>,
   OrderByTokens \o WhereTokens,
   <<Tok("OrderBy", "ORDER BY")>>}

SelectInputs ==
  {<<Tok("Select", "SELECT")>> \o list \o mid \o tail :
     list \in ColumnLists, mid \in AfterList, tail \in AfterTable}
  \cup {<<>>, <<Tok("Identifier", "x")>>, <<Tok("Semicolon", ";")>>}

NewFrame ==
  [pc |-> "start", tick |-> 0, columns |-> <<>>, from |-> "",
   where_clause |-> None, order_by |-> None]

InitSelect ==
  /\ build \in Builds
  /\ page \in {Page_new(id) : id \in PageIds}
  /\ result = [op |-> "new", status |-> "Ok"]
  /\ hist = <<>>
  /\ files = [t \in Tables |-> NoFile]
  /\ parser \in {Parser_new(tokens) : tokens \in SelectInputs}
  /\ calls = NewFrame

(* The call ends: its outcome goes to result. *)
Return(status, val) ==
  /\ result' = [op |-> "parse_and_build_ast", status |-> status, val |-> val]
  /\ calls' = [calls EXCEPT !.pc = "done"]

(* Lines 24-34: the match on self.peek().token_type. peek indexes tokens and
   panics when there is none. The statements tried begin with SELECT or with a
   token that starts no statement. *)
ParseAndBuildAst ==
  /\ calls.pc = "start"
  /\ IF is_at_end(parser) THEN Return("Panic", "index out of bounds")
     ELSE IF peek(parser).token_type = "Select"
       THEN calls' = [calls EXCEPT !.pc = "select_statement"] /\ UNCHANGED result
     ELSE Return("Err", "Unexpected statement type")
  /\ UNCHANGED <<build, page, hist, files, parser>>

(* Lines 64-93 of select_statement. *)
SelectHead ==
  /\ calls.pc = "select_statement"
  /\ \E r \in {select_head(parser)} :
       /\ parser' = r.parser
       /\ IF r.status = "Ok"
            THEN /\ calls' = [calls EXCEPT !.pc = "clauses",
                                           !.columns = r.val.columns,
                                           !.from = r.val.from]
                 /\ UNCHANGED result
          ELSE Return(r.status, r.val)
  /\ UNCHANGED <<build, page, hist, files>>

(* One iteration of the while loop of lines 95-129, taken while the parser
   is not at the end of its tokens. *)
ClauseLoop ==
  /\ calls.pc = "clauses"
  /\ ~is_at_end(parser)
  /\ \E r \in {clause_iteration(parser, calls.where_clause, calls.order_by)} :
       /\ parser' = r.parser
       /\ IF r.status = "Ok"
            THEN /\ calls' = [calls EXCEPT !.tick = 1 - @,
                                           !.where_clause = r.where_clause,
                                           !.order_by = r.order_by]
                 /\ UNCHANGED result
          ELSE Return(r.status, r.val)
  /\ UNCHANGED <<build, page, hist, files>>

(* Lines 131-138: the loop has ended and the statement is returned. *)
SelectReturn ==
  /\ calls.pc = "clauses"
  /\ is_at_end(parser)
  /\ Return("Ok", "Select")
  /\ UNCHANGED <<build, page, hist, files, parser>>

NextSelect == ParseAndBuildAst \/ SelectHead \/ ClauseLoop \/ SelectReturn

SpecSelect == InitSelect /\ [][NextSelect]_vars

(* The thread that made the call keeps running it: a statement that can be
   executed is executed. *)
SpecSelectFair == SpecSelect /\ WF_vars(NextSelect)

(* ------------------------------------------------------------------ *)
(* Properties of the page.                                             *)

(* The byte range [offset, offset + length) of slot i. *)
RangeOf(p, i) == SlotAt(p, i).offset .. (SlotAt(p, i).offset + SlotAt(p, i).length - 1)

(* The sum of 32 + payload length over the calls recorded in h. *)
RECURSIVE SumTotal(_)
SumTotal(h) ==
  IF Len(h) = 0 THEN 0
  ELSE TUPLE_HEADER_SIZE + Len(Head(h).data) + SumTotal(Tail(h))

(* C1: Page::from_bytes(p.to_bytes()) returns Ok with a page equal to p in
   id, header, every slot and every data byte. *)
C1_RoundTrip ==
  result.op = "round_trip" => result.status = "Ok" /\ result.decoded = page

(* C2: to_bytes returns a buffer of exactly PAGE_SIZE bytes on every call (so
   neither its debug assertion nor the assertion of flush_page fails). *)
C2_ToBytesLength ==
  result.op = "to_bytes" => result.status = "Ok" /\ Len(result.buf) = PAGE_SIZE

(* C3: the byte ranges of any two distinct used slots are disjoint, and the
   range of every used slot lies inside the data region [0, DATA_SIZE). *)
C3_NoOverlap ==
  /\ \A i \in UsedIdx(page) :
       SlotAt(page, i).offset + SlotAt(page, i).length <= DATA_SIZE
  /\ \A i, j \in UsedIdx(page) :
       i # j => RangeOf(page, i) \cap RangeOf(page, j) = {}

(* C4: after the successful inserts recorded in hist, free_space is DATA_SIZE
   minus the sum of their total lengths and total_free_slots is 256 minus
   their number; a successful insert lowers free_space by exactly 32 + payload
   length and total_free_slots by exactly 1; no step raises free_space. *)
C4_Accounting ==
  /\ page.header.free_space = DATA_SIZE - SumTotal(hist)
  /\ page.header.total_free_slots = MAX_SLOTS - Len(hist)

C4_Step ==
  /\ page'.header.free_space <= page.header.free_space
  /\ Len(hist') = Len(hist) + 1 =>
       /\ page'.header.free_space =
            page.header.free_space
              - (TUPLE_HEADER_SIZE + Len(hist'[Len(hist')].data))
       /\ page'.header.total_free_slots = page.header.total_free_slots - 1

C4_SpaceAccounting == [](C4_Accounting) /\ [][C4_Step]_vars

(* C4 witness: three or more successful inserts of payloads of different
   lengths, the last call having just returned Ok. *)
C4_Witness ==
  /\ Len(hist) >= 3
  /\ result.op = "insert_tuple" /\ result.status = "Ok"
  /\ \E i, j \in 1..Len(hist) : Len(hist[i].data) # Len(hist[j].data)

(* C5: a call of insert_tuple that does not return Ok leaves the page as it
   was: id, header, slots and data. *)
C5_AllOrNothing ==
  [][result'.op = "insert_tuple" /\ result'.status # "Ok" => page' = page]_vars

(* C6: a call of insert_tuple with 32 + payload length > free_space returns
   the error "Not enough free space" and leaves the page unchanged. *)
C6_Oversized ==
  [][(result'.op = "insert_tuple"
       /\ TUPLE_HEADER_SIZE + result'.len > page.header.free_space)
     => /\ result'.status = "Err"
        /\ result'.err = ErrNotEnoughFreeSpace
        /\ page' = page]_vars

(* C7: scan_page(txid) returns, in ascending slot order, exactly one entry
   for each inserted tuple whose xmin and xmax make it visible to txid, with
   the xmin, xmax and payload of the call that inserted it. *)
ExpectedScan(txid) ==
  LET vis == {k \in 1..Len(hist) :
                hist[k].xmin <= txid /\ (hist[k].xmax = 0 \/ txid < hist[k].xmax)}
      order == [r \in 1..Cardinality(vis) |->
                  CHOOSE k \in vis :
                    Cardinality({j \in vis : hist[j].slot < hist[k].slot}) = r - 1]
  IN [r \in DOMAIN order |->
        <<hist[order[r]].xmin, hist[order[r]].xmax, hist[order[r]].data>>]

C7_ScanExact ==
  result.op = "scan_page" =>
    /\ result.status = "Ok"
    /\ [r \in DOMAIN result.entries |->
          <<result.entries[r][1].xmin, result.entries[r][1].xmax,
            result.entries[r][2]>>]
       = ExpectedScan(result.txid)

(* C8: is_visible(txid) is true iff xmin <= txid and (xmax = 0 or txid < xmax);
   so xmin = 5, xmax = 0 is visible exactly at txid >= 5, and xmin = 5,
   xmax = 10 exactly at txid 5..9. *)
C8_Visibility ==
  result.op = "is_visible" =>
    /\ result.visible <=>
         (result.xmin <= result.txid
          /\ (result.xmax = 0 \/ result.txid < result.xmax))
    /\ (result.xmin = 5 /\ result.xmax = 0) =>
         (result.visible <=> result.txid >= 5)
    /\ (result.xmin = 5 /\ result.xmax = 10) =>
         (result.visible <=> result.txid \in 5..9)

(* C8 witness: xmin = 5, xmax = 10 seen at txid 9, the last visible one. *)
C8_Witness ==
  /\ result.op = "is_visible"
  /\ result.xmin = 5 /\ result.xmax = 10 /\ result.txid = 9
  /\ result.visible = TRUE

(* C9: on a page whose 256 slots are all used, insert_tuple of a tuple with
   32 + payload length <= free_space returns "No free slots available" and
   leaves the page unchanged. *)
C9_NoFreeSlots ==
  [][(/\ result'.op = "insert_tuple"
      /\ UsedIdx(page) = SlotIdx
      /\ TUPLE_HEADER_SIZE + result'.len <= page.header.free_space)
     => /\ result'.status = "Err"
        /\ result'.err = ErrNoFreeSlots
        /\ page' = page]_vars

(* C9 witness: a call on a full slot directory, with room left in free_space
   for the tuple, has returned the error. *)
C9_Witness ==
  /\ result.op = "insert_tuple"
  /\ UsedIdx(page) = SlotIdx
  /\ page.header.free_space > 0
  /\ TUPLE_HEADER_SIZE + result.len <= page.header.free_space
  /\ result.status = "Err" /\ result.err = ErrNoFreeSlots

(* C10: when the table file holds at least p.id + 1 pages, flush_page(table, p)
   succeeds and read_page(table, p.id) then returns a page equal to p. *)
C10_FlushThenRead ==
  [][(/\ result'.op = "flush_page"
      /\ files[result'.table].exists
      /\ Len(files[result'.table].bytes) >= (page.id + 1) * PAGE_SIZE)
     => /\ result'.status = "Ok"
        /\ read_page(files', result'.table, page.id).status = "Ok"
        /\ read_page(files', result'.table, page.id).val = page]_vars

(* ------------------------------------------------------------------ *)
(* Properties of IOManager.                                            *)

(* The calls of insert_page on table t among those recorded in h, in order. *)
CallsOn(h, t) == SelectSeq(h, LAMBDA c : c.table = t)

(* C11: on a table file that starts absent or empty, the k-th call of
   insert_page returns k - 1: the index of the page it has just appended, so
   the numbers returned on one table are pairwise distinct. *)
C11_SequentialNumbers ==
  \A t \in Tables :
    /\ \A k \in 1..Len(CallsOn(hist, t)) : CallsOn(hist, t)[k].new_page_no = k - 1
    /\ Len(files[t].bytes) = Len(CallsOn(hist, t)) * PAGE_SIZE
    /\ (result.op = "insert_page" /\ result.table = t) =>
         /\ result.status = "Ok"
         /\ result.new_page_no = Len(CallsOn(hist, t)) - 1
         /\ Slice(files[t].bytes, result.new_page_no * PAGE_SIZE,
                  (result.new_page_no + 1) * PAGE_SIZE) \in RawPages

(* C11 witness: a second call on one table has returned 1 after the first
   returned 0. *)
C11_Witness ==
  /\ result.op = "insert_page" /\ result.new_page_no = 1
  /\ Len(CallsOn(hist, result.table)) = 2
  /\ CallsOn(hist, result.table)[1].new_page_no = 0

(* C12: from_bytes returns Ok(page) for every buffer of exactly PAGE_SIZE
   bytes: none of its reads falls outside the buffer. *)
C12_DecodesFullPage ==
  (result.op = "from_bytes" /\ result.len = PAGE_SIZE) => result.status = "Ok"

(* C13: from_bytes returns the error "Invalid page size" for every buffer
   whose length is not PAGE_SIZE, shorter or longer. *)
C13_InvalidPageSize ==
  (result.op = "from_bytes" /\ result.len # PAGE_SIZE) =>
    /\ result.status = "Err"
    /\ result.err = ErrInvalidPageSize

(* C13 witness: a buffer longer than a page, long enough for every read of
   from_bytes, has been refused. *)
C13_Witness ==
  /\ result.op = "from_bytes" /\ result.len = PAGE_SIZE + 8
  /\ result.status = "Err" /\ result.err = ErrInvalidPageSize

(* C14: in the buffer to_bytes returns, the id is at bytes 0..8, free_space
   at 8..10, total_free_slots at 10..12, slot i at 12 + 6i and the data
   region at 12 + 256 * 6: the positions from_bytes reads them from. *)
C14_LayoutAgreement ==
  (result.op = "to_bytes" /\ result.status = "Ok") =>
    /\ from_le_bytes(Slice(result.buf, 0, 8)) = page.id
    /\ from_le_bytes(Slice(result.buf, 8, 10)) = page.header.free_space
    /\ from_le_bytes(Slice(result.buf, 10, 12)) = page.header.total_free_slots
    /\ \A i \in SlotIdx : Slot_from(result.buf, 12 + 6 * i) = SlotAt(page, i)
    /\ Slice(result.buf, 12 + MAX_SLOTS * 6, 12 + MAX_SLOTS * 6 + DATA_SIZE)
         = page.data

(* C15: insert_tuple always completes by returning Ok or one of its errors:
   it never panics, neither on an arithmetic overflow or underflow nor on an
   index or slice out of range. *)
C15_NoPanic ==
  result.op = "insert_tuple" => result.status \in {"Ok", "Err"}

(* C16: read_page returns an I/O error, and changes no file, when the table
   file does not exist or holds fewer than (page_no + 1) * PAGE_SIZE bytes. *)
C16_ReadMissing ==
  [][(/\ result'.op = "read_page"
      /\ \/ ~files[result'.table].exists
         \/ Len(files[result'.table].bytes) < (result'.page_no + 1) * PAGE_SIZE)
     => /\ result'.status = "Err"
        /\ result'.err \in {"NotFound", "UnexpectedEof"}
        /\ files' = files]_vars

(* C16 witness: a file that holds pages, read one page past its end. *)
C16_Witness ==
  /\ result.op = "read_page"
  /\ files[result.table].exists
  /\ Len(files[result.table].bytes) = result.page_no * PAGE_SIZE
  /\ result.page_no >= 1
  /\ result.status = "Err" /\ result.err = "UnexpectedEof"

(* ------------------------------------------------------------------ *)
(* Placement of tuples in the data region.                             *)

(* The total lengths asked of find_free_space_offset: those of TupleInputs. *)
FitLens == {TUPLE_HEADER_SIZE + Len(inp.data) : inp \in TupleInputs}

(* First fit as specified, over the used ranges <<start, end>> in ascending
   order of start: 0 when nothing is used or the lowest range starts at or
   after length; else the end of the first range whose distance to the next,
   next.start - this.end, is >= length; else the end of the last range when
   the tuple fits before DATA_SIZE; else None. *)
FirstFit(p, length) ==
  LET used == UsedSorted(p)
      gaps == {k \in 1..(Len(used) - 1) : used[k + 1][1] - used[k][2] >= length}
  IN IF Len(used) = 0 THEN Some(0)
     ELSE IF used[1][1] >= length THEN Some(0)
     ELSE IF gaps # {}
       THEN Some(used[CHOOSE k \in gaps : \A j \in gaps : k <= j][2])
     ELSE IF used[Len(used)][2] + length <= DATA_SIZE
       THEN Some(used[Len(used)][2])
     ELSE None

(* C18: find_free_space_offset returns the first-fit offset (gaps measured as
   next.start - this.end), or None when there is none, and the range it
   returns intersects no used range. *)
C18_FirstFit ==
  \A length \in FitLens :
    LET got == find_free_space_offset(page, length, build)
        want == FirstFit(page, length)
    IN /\ got.tag = want.tag
       /\ got.tag = "Some" =>
            /\ got.val = want.val
            /\ \A i \in UsedIdx(page) :
                 RangeOf(page, i) \cap (got.val .. (got.val + length - 1)) = {}

(* C19: a call of insert_tuple with 32 + payload length <= free_space on a
   page with an unused slot returns Ok, and no call returns "No free data
   space available" or "Not enough contiguous space". *)
C19_CapacityOnly ==
  [][result'.op = "insert_tuple" =>
       /\ (/\ TUPLE_HEADER_SIZE + result'.len <= page.header.free_space
           /\ UsedIdx(page) # SlotIdx)
          => result'.status = "Ok"
       /\ result'.status = "Err" =>
            result'.err \notin {ErrNoFreeDataSpace, ErrNotEnoughContiguousSpace}]_vars

(* C20: the tuple of the k-th successful insert starts at the sum of the
   total lengths of the k - 1 tuples inserted before it, so the used ranges
   tile [0, DATA_SIZE - free_space) without a gap. *)
C20_NoFragmentation ==
  \A k \in 1..Len(hist) :
    SlotAt(page, hist[k].slot).offset = SumTotal(SubSeq(hist, 1, k - 1))

(* ------------------------------------------------------------------ *)
(* Properties of the parser.                                           *)

(* The condition tree the doc comment of handle_where_clause asks for, read
   off the tokens by recursive descent: a group is a comparison or a
   parenthesised clause, AND joins groups, OR joins runs of ANDs, both to the
   left. Each operator returns the tree and the index after it. *)
RECURSIVE ExpectOr(_, _)
RECURSIVE ExpectAnd(_, _)
RECURSIVE ExpectGroup(_, _)
RECURSIVE ExpectRest(_, _, _)
ExpectGroup(tokens, i) ==
  IF tokens[i].token_type = "OpenParen"
    THEN [tree |-> ExpectOr(tokens, i + 1).tree,
          next |-> ExpectOr(tokens, i + 1).next + 1]
  ELSE [tree |-> Comparison(ComparisonOperator(tokens[i + 1].token_type),
                            Expr_Identifier(tokens[i].lexeme),
                            Expr_Literal(tokens[i + 2].lexeme)),
        next |-> i + 3]

(* Fold the operators `operator` that follow acc, each with the operand to
   its right. *)
ExpectRest(tokens, acc, operator) ==
  IF acc.next <= Len(tokens) /\ tokens[acc.next].token_type = operator
    THEN LET right == IF operator = "And" THEN ExpectGroup(tokens, acc.next + 1)
                      ELSE ExpectAnd(tokens, acc.next + 1)
         IN ExpectRest(tokens,
                       [tree |-> Logical(acc.tree, operator, right.tree),
                        next |-> right.next],
                       operator)
  ELSE acc

ExpectAnd(tokens, i) == ExpectRest(tokens, ExpectGroup(tokens, i), "And")

ExpectOr(tokens, i) == ExpectRest(tokens, ExpectAnd(tokens, i), "Or")

(* The three clauses the claim names. *)
Cmp(k) ==
  Comparison(ComparisonOperator(Comparators[k]), Expr_Identifier(Columns[k]),
             Expr_Literal(Literals[k]))

ClauseOf(shape) == ShapeTokens(shape, 1, 0)

(* C17: for comparisons joined by AND and OR, with or without parenthesised
   groups, handle_where_clause returns Ok with the tree in which AND binds
   tighter than OR and a group stays whole (a OR b AND c is a OR (b AND c),
   a AND b OR c is (a AND b) OR c, (a OR b) AND c keeps the OR below the
   AND); the operator stack is empty and one condition is in the queue. *)
C17_WherePrecedence ==
  result.op = "handle_where_clause" =>
    /\ result.status = "Ok"
    /\ result.condition = ExpectOr(parser.tokens, 1).tree
    /\ parser.current = ExpectOr(parser.tokens, 1).next - 1
    /\ result.stack_len = 0
    /\ result.queue_len = 1
    /\ SubSeq(parser.tokens, 1, parser.current) = ClauseOf(<<"x", "OR", "x", "AND", "x">>)
         => result.condition = Logical(Cmp(1), "Or", Logical(Cmp(2), "And", Cmp(3)))
    /\ SubSeq(parser.tokens, 1, parser.current) = ClauseOf(<<"x", "AND", "x", "OR", "x">>)
         => result.condition = Logical(Logical(Cmp(1), "And", Cmp(2)), "Or", Cmp(3))
    /\ SubSeq(parser.tokens, 1, parser.current)
           = ClauseOf(<<"(", "x", "OR", "x", ")", "AND", "x">>)
         => result.condition = Logical(Logical(Cmp(1), "Or", Cmp(2)), "And", Cmp(3))

(* C17 witness: a = 1 OR b > 2 AND c != 3 has been parsed, up to the end of
   the tokens, into a OR (b AND c). *)
C17_Witness ==
  /\ result.op = "handle_where_clause" /\ result.status = "Ok"
  /\ parser.tokens = ClauseOf(<<"x", "OR", "x", "AND", "x">>)
  /\ parser.current = Len(parser.tokens)
  /\ result.condition = Logical(Cmp(1), "Or", Logical(Cmp(2), "And", Cmp(3)))

(* ------------------------------------------------------------------ *)
(* Frames and back-references of insert_tuple.                         *)

(* C21: a successful insert_tuple leaves the page id, every slot entry other
   than the returned one and every data byte outside the new slot's range
   [offset, offset + length) as they were; in particular every data byte in
   the range of a slot used before the call is unchanged. *)
C21_InsertFrame ==
  [][(result'.op = "insert_tuple" /\ result'.status = "Ok")
     => LET i == result'.slot
            s == SlotAt(page', i)
        IN /\ page'.id = page.id
           /\ \A j \in SlotIdx \ {i} : SlotAt(page', j) = SlotAt(page, j)
           /\ Slice(page'.data, 0, s.offset) = Slice(page.data, 0, s.offset)
           /\ Slice(page'.data, s.offset + s.length, DATA_SIZE)
                = Slice(page.data, s.offset + s.length, DATA_SIZE)
           /\ \A j \in UsedIdx(page) :
                Slice(page'.data, SlotAt(page, j).offset,
                      SlotAt(page, j).offset + SlotAt(page, j).length)
                  = Slice(page.data, SlotAt(page, j).offset,
                          SlotAt(page, j).offset + SlotAt(page, j).length)]_vars

(* C22: for every used slot i of the page, the tuple header stored at the
   slot's offset has slot_no = i and page_no = the id of the page. *)
C22_BackReference ==
  \A i \in UsedIdx(page) :
    LET s == SlotAt(page, i)
        h == TupleHeader_from_bytes(Slice(page.data, s.offset,
                                          s.offset + TUPLE_HEADER_SIZE)).val
    IN /\ h.slot_no = i
       /\ h.page_no = page.id

(* C23: a successful insert_tuple returns the lowest index whose slot was
   unused before the call; after it that slot is used and its length is 32 +
   the payload length; on a page filled by inserts alone the k-th successful
   insert returns k - 1. *)
C23_SlotHandle ==
  [][(result'.op = "insert_tuple" /\ result'.status = "Ok" /\ hist' # hist)
     => LET i == result'.slot
        IN /\ SlotAt(page, i).is_used = 0
           /\ \A j \in 0..(i - 1) : SlotAt(page, j).is_used # 0
           /\ SlotAt(page', i).is_used = 1
           /\ SlotAt(page', i).length = TUPLE_HEADER_SIZE + result'.len
           /\ i = Len(hist') - 1]_vars

(* The third successful insert into a new page has returned slot 2. *)
C23_Witness ==
  /\ result.op = "insert_tuple" /\ result.status = "Ok"
  /\ Len(hist) = 3
  /\ result.slot = 2
  /\ SlotAt(page, 2).is_used = 1
  /\ SlotAt(page, 2).length = TUPLE_HEADER_SIZE + result.len

(* C29: on a page filled by insert_tuple alone at most DATA_SIZE / 32 = 207
   slots are used, total_free_slots stays positive, and insert_tuple never
   returns "No free slots available": the free-space check rejects the call
   first. *)
C29_SlotsNeverExhausted ==
  /\ Cardinality(UsedIdx(page)) <= DATA_SIZE \div TUPLE_HEADER_SIZE
  /\ page.header.total_free_slots > 0
  /\ (result.op = "insert_tuple" /\ result.status = "Err")
       => result.err # ErrNoFreeSlots

(* 207 empty tuples are stored and the next insert was rejected by the
   free-space check. *)
C29_Witness ==
  /\ Cardinality(UsedIdx(page)) = DATA_SIZE \div TUPLE_HEADER_SIZE
  /\ Len(hist) = DATA_SIZE \div TUPLE_HEADER_SIZE
  /\ page.header.free_space < TUPLE_HEADER_SIZE
  /\ result.op = "insert_tuple" /\ result.status = "Err"
  /\ result.err = ErrNotEnoughFreeSpace

(* ------------------------------------------------------------------ *)
(* Properties of the table files.                                      *)

(* C27: after any sequence of insert_page and flush_page calls, each run
   from call to return, on files that start absent, the length of every table
   file is a multiple of PAGE_SIZE. *)
C27_WholePages ==
  \A t \in Tables : Len(files[t].bytes) % PAGE_SIZE = 0

(* A flush_page call has failed on a file that insert_page grew to two pages. *)
C27_Witness ==
  /\ result.op = "flush_page" /\ result.status = "Panic"
  /\ Len(CallsOn(hist, result.table)) = 2
  /\ Len(files[result.table].bytes) = 2 * PAGE_SIZE

(* C28: read_page(table, n) of a page index n present in the file returns a
   page whose id is n, and the number returned by insert_page is the id
   encoded in the first eight bytes of the page it appended. *)
C28_IdMatchesPosition ==
  /\ (/\ result.op = "read_page"
      /\ files[result.table].exists
      /\ (result.page_no + 1) * PAGE_SIZE <= Len(files[result.table].bytes))
       => /\ result.status = "Ok"
          /\ result.decoded.id = result.page_no
  /\ (result.op = "insert_page" /\ result.status = "Ok")
       => Slice(files[result.table].bytes, result.new_page_no * PAGE_SIZE,
                result.new_page_no * PAGE_SIZE + 8)
            = to_le_bytes(result.new_page_no, 8)

(* ------------------------------------------------------------------ *)
(* Properties of concurrent callers.                                   *)

(* C24: two insert_page calls on one table that overlap can return the same
   page number: the pages they appended have different indexes, so at least
   one caller got a number that is not the index of its page; a call returns
   the index of its own page when the calls run one after another. *)
C24_InsertRace ==
  \A c \in Callers :
    (calls[c].op = "insert_page" /\ calls[c].pc = "done")
      => /\ calls[c].ret >= calls[c].wrote
         /\ Serialized => calls[c].ret = calls[c].wrote
         /\ \A d \in Callers \ {c} :
              (calls[d].op = "insert_page" /\ calls[d].pc = "done")
                => /\ calls[d].wrote # calls[c].wrote
                   /\ calls[d].ret = calls[c].ret
                        => (calls[c].ret # calls[c].wrote
                            \/ calls[d].ret # calls[d].wrote)

(* Both insert_page calls have returned, with the same page number. *)
C24_Witness ==
  \E c, d \in Callers :
    /\ c # d
    /\ calls[c].op = "insert_page" /\ calls[c].pc = "done"
    /\ calls[d].op = "insert_page" /\ calls[d].pc = "done"
    /\ calls[c].ret = calls[d].ret
    /\ calls[c].ret # calls[c].wrote

(* C25: when two flush_page calls for the same table and page id run one
   after the other, the page on disk after both equals the page of the later
   call. *)
C25_FlushRace ==
  \A c, d \in Callers :
    (/\ c # d
     /\ calls[c].op = "flush_page" /\ calls[c].pc = "done"
     /\ calls[d].op = "flush_page" /\ calls[d].pc = "done"
     /\ Serialized
     /\ hist[Len(hist)] = d)
      => /\ calls[d].status = "Ok"
         /\ Slice(files[RaceTable].bytes, 0, PAGE_SIZE)
              = to_bytes(PageOf(d), build).val

(* C30: parse_and_build_ast on a finite token sequence ends: the while loop
   of select_statement does not run forever, whatever token follows the table
   name. *)
C30_Terminates == <>(calls.pc = "done")

====
